---- MODULE Spec2Model ----
(***************************************************************************)
(* The AddonsLayer controller of kraan: the per-layer reconcile pass       *)
(* (controllers: AddonsLayerReconciler.Reconcile and its helpers) acting   *)
(* on the Layer object of pkg/internal/layers (KraanLayer).                *)
(*                                                                         *)
(* The cluster holds one AddonsLayer object per layer name.  A pass reads  *)
(* the object, runs the state machine against the answers of the cluster   *)
(* discovery client and of the Executor (apply.LayerApplier), writes the   *)
(* status back and returns a scheduling result.  The answers of the        *)
(* collaborators are inputs of the pass, drawn from small sets.            *)
(***************************************************************************)
EXTENDS Naturals, Sequences, FiniteSets, TLC

VARIABLES
    cluster,   \* name -> AddonsLayer object stored in the cluster API
    last,      \* record of the most recent pass (observation of Reconcile)
    sync,      \* record of the most recent run of repoMapperFunc
    alive,     \* the controller process is running
    tree       \* the source tree on disk: path -> content

vars == <<cluster, last, sync, alive, tree>>

----------------------------------------------------------------------------
(* Bounds of the model *)

\* the conditions stored in the whole cluster number at most MaxHistory
MaxHistory == 2

\* the configured requeue intervals of the two layer descriptors
IntervalX == 1
IntervalY == 2

\* the same, in the specification of the pruning loop
MaxLong == 11

----------------------------------------------------------------------------
(* Names, descriptors *)

Layers == {"X", "Y"}

\* names a reconcile request may carry: the layers and a name absent from
\* the cluster
Requests == Layers \cup {"Z"}

\* a string is a sequence of character codes; '.' is 0 and the digit d is
\* d + 1, which keeps the byte order of '.' < '0' < ... < '9'
V115 == <<2, 0, 2, 6>>
V116 == <<2, 0, 2, 7>>
V117 == <<2, 0, 2, 8>>

ServerVersions == {V115, V116, V117}

SpecInterval(n) == IF n = "X" THEN IntervalX ELSE IntervalY

\* Spec.PreReqs.K8sVersion of every descriptor
SpecK8sVersion(n) == V116

\* Spec.Version of every descriptor
SpecVersion(n) == "v1"

\* Spec.Source of the descriptors: X and Y name repositories of the same name
\* in two namespaces
SpecSource(n) ==
    IF n = "X"
    THEN [NameSpace |-> "gitops", Name |-> "addons", Path |-> "x"]
    ELSE [NameSpace |-> "other", Name |-> "addons", Path |-> "y"]

\* the layers a descriptor declares it depends on: Y depends on X
DependsOn(n) == IF n = "Y" THEN {"X"} ELSE {}

----------------------------------------------------------------------------
(* Condition types (kraanv1alpha1) *)

HoldCondition         == "Hold"
K8sVersionCondition   == "WaitingForClusterVersion"
PrunePendingCondition == "PrunePending"
PruningCondition      == "Pruning"
PrunedCondition       == "Pruned"
ApplyPendingCondition == "ApplyPending"
ApplyingCondition     == "Applying"
DeployedCondition     == "Deployed"
FailedCondition       == "Failed"

States == {HoldCondition, K8sVersionCondition, PrunePendingCondition,
           PruningCondition, PrunedCondition, ApplyPendingCondition,
           ApplyingCondition, DeployedCondition, FailedCondition}

\* the nil error
NoErr == "nil"

\* the message of the error a collaborator's call returns
ErrOf(op) == op \o " failed"

----------------------------------------------------------------------------
(* KraanLayer: pkg/internal/layers *)

MaxConditions == 10

\* a freshly created AddonsLayer: empty status
NewAddonsLayer(n, hold) ==
    [Name   |-> n,
     Spec   |-> [Hold |-> hold, Version |-> SpecVersion(n),
                 Interval |-> SpecInterval(n),
                 K8sVersion |-> SpecK8sVersion(n),
                 Source |-> SpecSource(n)],
     Status |-> [State |-> "", Version |-> "", Conditions |-> <<>>]]

CreateLayer(addonsLayer) ==
    [requeue     |-> FALSE,
     delayed     |-> FALSE,
     updated     |-> FALSE,
     addonsLayer |-> addonsLayer,
     delay       |-> addonsLayer.Spec.Interval]

SetRequeue(l) == [l EXCEPT !.requeue = TRUE]

SetUpdated(l) == [l EXCEPT !.updated = TRUE]

SetDelayed(l) == [l EXCEPT !.delayed = TRUE]

\* marks the pass for a delayed requeue
SetDelayedRequeue(l) == [l EXCEPT !.delayed = TRUE, !.requeue = TRUE]

GetStatus(l) == l.addonsLayer.Status.State

GetRequiredK8sVersion(l) == l.addonsLayer.Spec.K8sVersion

IsHold(l) == l.addonsLayer.Spec.Hold

IsUpdated(l) == l.updated

IsDelayed(l) == l.delayed

NeedsRequeue(l) == l.requeue

GetDelay(l) == l.delay

Condition(l, status, reason, message) ==
    [Type    |-> status,
     Version |-> l.addonsLayer.Spec.Version,
     Status  |-> "True",
     Reason  |-> reason,
     Message |-> message]

\* setStatus that does not mark the pass for a requeue
setStatus_NoRequeue(l, status, reason, message) ==
    [l EXCEPT !.addonsLayer.Status.Conditions =
                  Append(@, Condition(l, status, reason, message)),
              !.addonsLayer.Status.State = status,
              !.addonsLayer.Status.Version = l.addonsLayer.Spec.Version,
              !.updated = TRUE]

\* setStatus without the assignment of Status.State
setStatus_NoState(l, status, reason, message) ==
    [l EXCEPT !.addonsLayer.Status.Conditions =
                  Append(@, Condition(l, status, reason, message)),
              !.addonsLayer.Status.Version = l.addonsLayer.Spec.Version,
              !.updated = TRUE,
              !.requeue = TRUE]

setStatus(l, status, reason, message) ==
    [l EXCEPT !.addonsLayer.Status.Conditions =
                  Append(@, Condition(l, status, reason, message)),
              !.addonsLayer.Status.State = status,
              !.addonsLayer.Status.Version = l.addonsLayer.Spec.Version,
              !.updated = TRUE,
              !.requeue = TRUE]

StatusUpdate(l, status, reason, message) == setStatus(l, status, reason, message)

\* a SetStatusK8sVersion that records nothing
SetStatusK8sVersion_Skip(l) == l

SetStatusK8sVersion(l) ==
    setStatus(l, K8sVersionCondition, "AddonsLayerK8sVersionReason",
              "AddonsLayerK8sVersionMsg")

\* a SetStatusDeployed without the test of the current state
SetStatusDeployed_Always(l) ==
    setStatus(l, DeployedCondition, "AddonsLayerDeployedReason", "")

SetStatusDeployed(l) ==
    IF GetStatus(l) # DeployedCondition
    THEN setStatus(l, DeployedCondition, "AddonsLayerDeployedReason", "")
    ELSE l

SetStatusApplyPending(l) ==
    setStatus(l, ApplyPendingCondition, "AddonsLayerApplyPendingReason",
              "AddonsLayerApplyPendingMsg")

SetStatusApplying(l) ==
    setStatus(l, ApplyingCondition, "AddonsLayerApplyingReason",
              "AddonsLayerApplyingMsg")

SetStatusPrunePending(l) ==
    setStatus(l, PrunePendingCondition, "AddonsLayerPrunePendingReason",
              "AddonsLayerPrunePendingMsg")

SetStatusPruned(l) ==
    setStatus(l, PrunedCondition, "AddonsLayerPrunedReason",
              "AddonsLayerPrunedMsg")

SetStatusPruning(l) ==
    setStatus(l, PruningCondition, "AddonsLayerPruningReason",
              "AddonsLayerPruningMsg")

SetStatusPruningToPruned(l) ==
    IF GetStatus(l) = PruningCondition \/ GetStatus(l) = PrunePendingCondition
    THEN SetStatusPruned(l)
    ELSE l

\* SetHold without the test of the current state
SetHold_Always(l) ==
    IF IsHold(l)
    THEN SetUpdated(StatusUpdate(l, HoldCondition, "AddonsLayerHoldReason",
                                 "AddonsLayerHoldMsg"))
    ELSE l

SetHold(l) ==
    IF IsHold(l) /\ GetStatus(l) # HoldCondition
    THEN SetUpdated(StatusUpdate(l, HoldCondition, "AddonsLayerHoldReason",
                                 "AddonsLayerHoldMsg"))
    ELSE l

\* a > b in the byte order of strings
RECURSIVE StrGreater(_, _)
StrGreater(a, b) ==
    IF a = <<>> THEN FALSE
    ELSE IF b = <<>> THEN TRUE
    ELSE IF Head(a) # Head(b) THEN Head(a) > Head(b)
    ELSE StrGreater(Tail(a), Tail(b))

\* versionAns is the answer of Discovery().ServerVersion(): [version, err]
CheckK8sVersion(l, versionAns) ==
    IF versionAns.err # NoErr
    THEN [l  |-> SetDelayed(StatusUpdate(l, GetStatus(l),
                     "failed to obtain cluster api server version",
                     versionAns.err)),
          ok |-> FALSE]
    ELSE [l  |-> l,
          ok |-> StrGreater(versionAns.version, GetRequiredK8sVersion(l))]

\* DependenciesDeployed that answers true whatever the dependencies report
DependenciesDeployed_True(l, layers) == TRUE

\* layers is the listing of the cluster's AddonsLayers
DependenciesDeployed(l, layers) == FALSE

----------------------------------------------------------------------------
(* The answers of the collaborators.  A call returns any of its answers, so *)
(* an operation that calls a collaborator is the set of its outcomes.       *)

\* Discovery().ServerVersion(): (version, error)
VersionAnswers ==
    {[version |-> v, err |-> NoErr] : v \in ServerVersions}
        \cup {[version |-> <<>>, err |-> ErrOf("ServerVersion")]}

\* (required/ready, error) as returned by the Executor's queries
QueryAnswers(op) ==
    {[val |-> b, err |-> NoErr] : b \in BOOLEAN}
        \cup {[val |-> FALSE, err |-> ErrOf(op)]}

\* the error returned by a mutating call, by the read or by the status write
ErrAnswers(op) == {NoErr, ErrOf(op)}

\* one Executor call as it is observed: the operation and what it returned
Call(op, val, err) == [op |-> op, val |-> val, err |-> err]

----------------------------------------------------------------------------
(* AddonsLayerReconciler: the reconcile pass *)

\* processPrune that reports the status as not reconciled after a prune
processPrune_NotTerminal(l) ==
    UNION {
        LET c1 == Call("PruneIsRequired", q.val, q.err)
        IN  IF q.err # NoErr
            THEN {[l |-> l, calls |-> <<c1>>, statusReconciled |-> FALSE,
                   err |-> q.err]}
            ELSE IF q.val
            THEN {[l     |-> SetDelayedRequeue(SetStatusPruning(l)),
                   calls |-> <<c1, Call("Prune", TRUE, pruneErr)>>,
                   statusReconciled |-> FALSE, err |-> NoErr]
                  : pruneErr \in ErrAnswers("Prune")}
            ELSE {[l |-> l, calls |-> <<c1>>, statusReconciled |-> FALSE,
                   err |-> NoErr]}
        : q \in QueryAnswers("PruneIsRequired")}

\* processPrune that goes on to apply after the prune
processPrune_ThenApply(l) ==
    UNION {
        LET c1 == Call("PruneIsRequired", q.val, q.err)
        IN  IF q.err # NoErr
            THEN {[l |-> l, calls |-> <<c1>>, statusReconciled |-> FALSE,
                   err |-> q.err]}
            ELSE IF q.val
            THEN {[l     |-> SetDelayedRequeue(SetStatusApplying(SetStatusPruning(l))),
                   calls |-> <<c1, Call("Prune", TRUE, pruneErr),
                               Call("Apply", TRUE, applyErr)>>,
                   statusReconciled |-> TRUE, err |-> NoErr]
                  : pruneErr \in ErrAnswers("Prune"),
                    applyErr \in ErrAnswers("Apply")}
            ELSE {[l |-> l, calls |-> <<c1>>, statusReconciled |-> FALSE,
                   err |-> NoErr]}
        : q \in QueryAnswers("PruneIsRequired")}

\* the outcomes (l, statusReconciled, err) with the Executor calls made
processPrune(l) ==
    UNION {
        LET err == q.err
            c1  == Call("PruneIsRequired", q.val, q.err)
        IN  IF err # NoErr
            THEN {[l |-> l, calls |-> <<c1>>, statusReconciled |-> FALSE,
                   err |-> err]}
            ELSE IF q.val
            THEN {LET l1    == SetStatusPruning(l)
                      calls == <<c1, Call("Prune", TRUE, pruneErr)>>
                  IN  \* the test is on err, the error of PruneIsRequired
                      IF err # NoErr
                      THEN [l |-> l1, calls |-> calls,
                            statusReconciled |-> TRUE, err |-> pruneErr]
                      ELSE [l |-> SetDelayedRequeue(l1), calls |-> calls,
                            statusReconciled |-> TRUE, err |-> NoErr]
                  : pruneErr \in ErrAnswers("Prune")}
            ELSE {[l |-> l, calls |-> <<c1>>, statusReconciled |-> FALSE,
                   err |-> NoErr]}
        : q \in QueryAnswers("PruneIsRequired")}

\* processApply that stops at the dependency gate without marking a requeue
processApply_NoRequeue(l, layers) ==
    UNION {
        LET c1 == Call("ApplyIsRequired", q.val, q.err)
        IN  IF q.err # NoErr
            THEN {[l |-> l, calls |-> <<c1>>, statusReconciled |-> FALSE,
                   err |-> q.err]}
            ELSE IF q.val
            THEN IF ~DependenciesDeployed(l, layers)
                 THEN {[l |-> l, calls |-> <<c1>>,
                        statusReconciled |-> TRUE, err |-> NoErr]}
                 ELSE {[l |-> SetDelayedRequeue(SetStatusApplying(l)),
                        calls |-> <<c1, Call("Apply", TRUE, applyErr)>>,
                        statusReconciled |-> TRUE, err |-> NoErr]
                       : applyErr \in ErrAnswers("Apply")}
            ELSE {[l |-> l, calls |-> <<c1>>, statusReconciled |-> FALSE,
                   err |-> NoErr]}
        : q \in QueryAnswers("ApplyIsRequired")}

\* layers is the cluster's listing of AddonsLayers
processApply(l, layers) ==
    UNION {
        LET err == q.err
            c1  == Call("ApplyIsRequired", q.val, q.err)
        IN  IF err # NoErr
            THEN {[l |-> l, calls |-> <<c1>>, statusReconciled |-> FALSE,
                   err |-> err]}
            ELSE IF q.val
            THEN IF ~DependenciesDeployed(l, layers)
                 THEN {[l |-> SetDelayedRequeue(l), calls |-> <<c1>>,
                        statusReconciled |-> TRUE, err |-> NoErr]}
                 ELSE {LET l1    == SetStatusApplying(l)
                           calls == <<c1, Call("Apply", TRUE, applyErr)>>
                       IN  \* the test is on err, the error of ApplyIsRequired
                           IF err # NoErr
                           THEN [l |-> l1, calls |-> calls,
                                 statusReconciled |-> TRUE, err |-> applyErr]
                           ELSE [l |-> SetDelayedRequeue(l1), calls |-> calls,
                                 statusReconciled |-> TRUE, err |-> NoErr]
                       : applyErr \in ErrAnswers("Apply")}
            ELSE {[l |-> l, calls |-> <<c1>>, statusReconciled |-> FALSE,
                   err |-> NoErr]}
        : q \in QueryAnswers("ApplyIsRequired")}

\* checkSuccess that treats a failed query as "not ready yet"
checkSuccess_Swallow(l) ==
    {LET c1 == Call("ApplyWasSuccessful", q.val, q.err)
     IN  IF q.err # NoErr \/ ~q.val
         THEN [l |-> SetDelayedRequeue(l), calls |-> <<c1>>, err |-> NoErr]
         ELSE [l |-> SetStatusDeployed(l), calls |-> <<c1>>, err |-> NoErr]
     : q \in QueryAnswers("ApplyWasSuccessful")}

checkSuccess(l) ==
    {LET c1 == Call("ApplyWasSuccessful", q.val, q.err)
     IN  IF q.err # NoErr
         THEN [l |-> l, calls |-> <<c1>>, err |-> q.err]
         ELSE IF ~q.val
         THEN [l |-> SetDelayedRequeue(l), calls |-> <<c1>>, err |-> NoErr]
         ELSE [l |-> SetStatusDeployed(l), calls |-> <<c1>>, err |-> NoErr]
     : q \in QueryAnswers("ApplyWasSuccessful")}

\* an outcome of processAddonLayer: the Layer, the error, the Executor calls
\* in order and the answers of the version query (none when hold stops the pass)
Outcome(l, calls, err, version) ==
    [l |-> l, calls |-> calls, err |-> err, version |-> version]

processAddonLayer(l, layers) ==
    IF IsHold(l)
    THEN {Outcome(SetHold(l), <<>>, NoErr, <<>>)}
    ELSE
    UNION {
        LET v == CheckK8sVersion(l, va)
        IN  IF ~v.ok
            THEN {Outcome(SetDelayedRequeue(SetStatusK8sVersion(v.l)),
                          <<>>, NoErr, <<va>>)}
            ELSE
            UNION {
                IF p.err # NoErr
                THEN {Outcome(p.l, p.calls, p.err, <<va>>)}
                ELSE IF p.statusReconciled
                THEN {Outcome(p.l, p.calls, NoErr, <<va>>)}
                ELSE
                UNION {
                    IF a.err # NoErr
                    THEN {Outcome(a.l, p.calls \o a.calls, a.err, <<va>>)}
                    ELSE IF a.statusReconciled
                    THEN {Outcome(a.l, p.calls \o a.calls, NoErr, <<va>>)}
                    ELSE {Outcome(c.l, p.calls \o a.calls \o c.calls, c.err, <<va>>)
                          : c \in checkSuccess(a.l)}
                    : a \in processApply(p.l, layers)}
                : p \in processPrune(v.l)}
        : va \in VersionAnswers}

\* ctrl.Result
Result(requeue, requeueAfter) == [Requeue |-> requeue, RequeueAfter |-> requeueAfter]

\* r.update: the error of the status write
update(a) == ErrAnswers("update")

\* updateRequeue that ignores the delayed flag
updateRequeue_NoDelay(l) ==
    LET res == IF NeedsRequeue(l) THEN Result(TRUE, 0) ELSE Result(FALSE, 0)
    IN  IF IsUpdated(l)
        THEN {[res |-> res, rerr |-> updateErr, wrote |-> TRUE,
               updateErr |-> updateErr]
              : updateErr \in update(l.addonsLayer)}
        ELSE {[res |-> res, rerr |-> NoErr, wrote |-> FALSE,
               updateErr |-> NoErr]}

\* updateRequeue that drops the error of the status write
updateRequeue_DropErr(l) ==
    LET res == IF NeedsRequeue(l)
               THEN IF IsDelayed(l)
                    THEN Result(TRUE, GetDelay(l))
                    ELSE Result(TRUE, 0)
               ELSE Result(FALSE, 0)
    IN  IF IsUpdated(l)
        THEN {[res |-> res, rerr |-> NoErr, wrote |-> TRUE,
               updateErr |-> updateErr]
              : updateErr \in update(l.addonsLayer)}
        ELSE {[res |-> res, rerr |-> NoErr, wrote |-> FALSE,
               updateErr |-> NoErr]}

\* the outcomes (res, rerr), whether the status write was attempted and what
\* the write answered
updateRequeue(l) ==
    LET res == IF NeedsRequeue(l)
               THEN IF IsDelayed(l)
                    THEN Result(TRUE, GetDelay(l))
                    ELSE Result(TRUE, 0)
               ELSE Result(FALSE, 0)
    IN  IF IsUpdated(l)
        THEN {[res |-> res, rerr |-> updateErr, wrote |-> TRUE,
               updateErr |-> updateErr]
              : updateErr \in update(l.addonsLayer)}
        ELSE {[res |-> res, rerr |-> NoErr, wrote |-> FALSE,
               updateErr |-> NoErr]}

\* what Reconcile(req) leaves behind: the object read (before), the Layer at
\* the end of the pass (l), the Executor calls in order, the answers of the
\* version query, the pass's error and the returned (res, rerr)
Pass(n, before, l, p, u) ==
    [kind    |-> "pass",
     name    |-> n,
     before  |-> before,
     l       |-> l,
     calls   |-> p.calls,
     version |-> p.version,
     err     |-> p.err,
     res     |-> u.res,
     rerr    |-> u.rerr,
     wrote   |-> u.wrote,
     updateErr |-> u.updateErr]

\* a Reconcile that returned before creating the Layer
NoPass(kind, n, rerr) ==
    [kind    |-> kind,
     name    |-> n,
     before  |-> "none",
     l       |-> "none",
     calls   |-> <<>>,
     version |-> <<>>,
     err     |-> NoErr,
     res     |-> Result(FALSE, 0),
     rerr    |-> rerr,
     wrote   |-> FALSE,
     updateErr |-> NoErr]

----------------------------------------------------------------------------
(* Artifact Sync: repoMapperFunc, SyncRepo, fetchArtifact *)

RootPath == "/repos"

GitRepositoryKind == "GitRepository"

\* the repositories a notification may name
Repos ==
    {[Namespace |-> "gitops", Name |-> "addons"],
     [Namespace |-> "other", Name |-> "addons"],
     [Namespace |-> "gitops", Name |-> "extras"]}

\* Status.Artifact of a repository: nil or an artifact with a revision
Artifacts == {"nil", "rev1"}

\* the objects handed to repoMapperFunc: GitRepository objects, whose kind
\* string may or may not be set to GitRepositoryKind, and an object of
\* another type
Notifications ==
    {[type |-> "GitRepository", kind |-> k, Namespace |-> r.Namespace,
      Name |-> r.Name, Artifact |-> art]
        : k \in {GitRepositoryKind, ""}, r \in Repos, art \in Artifacts}
    \cup {[type |-> "HelmRelease", kind |-> "HelmRelease",
            Namespace |-> "gitops", Name |-> "addons", Artifact |-> "nil"]}

\* the path of a layer's content in the source tree
GetSourcePath(addon) ==
    <<RootPath, addon.Spec.Source.NameSpace, addon.Spec.Source.Name,
      addon.Spec.Source.Path>>

\* http.DefaultClient.Do under the 15 s context: a response with status 200
\* or another status, a transport error, or the deadline exceeded
DoAnswers == {"200", "500", "transport", "timeout"}

FetchOutcome(err, http, untar) == [err |-> err, http |-> http, untar |-> untar]

\* a fetchArtifact that takes every response as a success
fetchArtifact_AnyStatus(repository, dir) ==
    IF repository.Artifact = "nil"
    THEN {FetchOutcome("repository does not containt an artifact",
                       "none", "none")}
    ELSE UNION {
        IF reqErr # NoErr
        THEN {FetchOutcome("failed to create HTTP request", "none", "none")}
        ELSE UNION {
            IF do \in {"200", "500"}
            THEN {FetchOutcome(IF untarErr # NoErr
                               THEN "faild to untar artifact" ELSE NoErr,
                               do, untarErr)
                  : untarErr \in ErrAnswers("Untar")}
            ELSE {FetchOutcome("failed to download artifact", do, "none")}
            : do \in DoAnswers}
        : reqErr \in ErrAnswers("NewRequest")}

\* the outcomes of fetchArtifact: its error, and what the download and the
\* extraction answered ("none" when not reached)
fetchArtifact(repository, dir) ==
    IF repository.Artifact = "nil"
    THEN {FetchOutcome("repository does not containt an artifact",
                       "none", "none")}
    ELSE UNION {
        IF reqErr # NoErr
        THEN {FetchOutcome("failed to create HTTP request", "none", "none")}
        ELSE UNION {
            IF do \in {"transport", "timeout"}
            THEN {FetchOutcome("failed to download artifact", do, "none")}
            ELSE IF do # "200"
            THEN {FetchOutcome("faild to download artifact, status", do,
                               "none")}
            ELSE {FetchOutcome(IF untarErr # NoErr
                               THEN "faild to untar artifact" ELSE NoErr,
                               do, untarErr)
                  : untarErr \in ErrAnswers("Untar")}
            : do \in DoAnswers}
        : reqErr \in ErrAnswers("NewRequest")}

SyncOutcome(dataPath, err, panic, f) ==
    [dataPath |-> dataPath, err |-> err, panic |-> panic,
     http |-> f.http, untar |-> f.untar]

NotFetched == FetchOutcome(NoErr, "none", "none")

\* the outcomes of SyncRepo: the working directory or an error, or the panic
\* of reading Status.Artifact.Revision through a nil Artifact
SyncRepo(repository) ==
    IF repository.Artifact = "nil"
    THEN {SyncOutcome(<<>>, NoErr, TRUE, NotFetched)}
    ELSE LET tmpDir == <<"tmp", repository.Name, repository.Artifact>>
         IN  UNION {
             IF tmpErr # NoErr
             THEN {SyncOutcome(<<>>, "failed to create temp dir", FALSE,
                               NotFetched)}
             ELSE UNION {
                 IF f.err # NoErr
                 THEN {SyncOutcome(<<>>, f.err, FALSE, f)}
                 ELSE {SyncOutcome(IF readErr # NoErr THEN <<>> ELSE tmpDir,
                                   IF readErr # NoErr
                                   THEN "faild to list files" ELSE NoErr,
                                   FALSE, f)
                       : readErr \in ErrAnswers("ReadDir")}
                 : f \in fetchArtifact(repository, tmpDir)}
             : tmpErr \in ErrAnswers("TempDir")}

\* reconciler.List: an error, or the stored layers in some order
ListAnswers ==
    {[items |-> <<>>, err |-> ErrOf("List")]}
    \cup {[items |-> [i \in DOMAIN order |-> cluster[order[i]]], err |-> NoErr]
            : order \in {o \in [1..Cardinality(DOMAIN cluster) -> DOMAIN cluster]
                            : \A i, j \in DOMAIN o : o[i] = o[j] => i = j}}

\* the paths of the source tree the layers name
SourcePaths == {GetSourcePath(NewAddonsLayer(n, FALSE)) : n \in Layers}

\* os.Link(oldname, newname): an error when oldname does not exist, else nil
\* or an error (newname exists, oldname is a directory, ...)
LinkAnswers(oldname) ==
    IF tree[oldname] = "absent" THEN {ErrOf("Link")} ELSE ErrAnswers("Link")

MapOutcome(requests, links, exit, err, s) ==
    [requests |-> requests, links |-> links, exit |-> exit, err |-> err,
     http |-> s.http, untar |-> s.untar]

NotSynced == SyncOutcome(<<>>, NoErr, FALSE, NotFetched)

\* the loop of repoMapperFunc over the listed layers: the request of a layer
\* whose source is the repository is appended, then os.Link is called for the
\* layer, and its error ends the process
RECURSIVE LinkLoop(_, _, _, _, _)
LinkLoop(items, repo, s, addons, links) ==
    IF items = <<>>
    THEN {MapOutcome(addons, links, "none", NoErr, s)}
    ELSE LET addon == Head(items)
             added == IF /\ addon.Spec.Source.Name = repo.Name
                         /\ addon.Spec.Source.NameSpace = repo.Namespace
                      THEN Append(addons, addon.Name)
                      ELSE addons
             Link(linkErr) ==
                 [layer |-> addon.Name, oldname |-> GetSourcePath(addon),
                  newname |-> Append(s.dataPath, addon.Spec.Source.Path),
                  err |-> linkErr]
         IN  UNION {
             IF linkErr # NoErr
             THEN {MapOutcome(<<>>, Append(links, Link(linkErr)), "exit",
                              linkErr, s)}
             ELSE LinkLoop(Tail(items), repo, s, added,
                           Append(links, Link(linkErr)))
             : linkErr \in LinkAnswers(GetSourcePath(addon))}

\* the outcomes of repoMapperFunc(a): the requests returned, the os.Link
\* calls made, whether the process ended (os.Exit or panic), the error logged
\* last, and what the download and the extraction answered
repoMapperFunc(a) ==
    IF a.type # "GitRepository"
    THEN {MapOutcome(<<>>, <<>>, "none", "unable to cast object to GitRepository",
                     NotSynced)}
    ELSE UNION {
        IF s.panic
        THEN {MapOutcome(<<>>, <<>>, "panic", "nil pointer dereference", s)}
        ELSE IF s.err # NoErr
        THEN {MapOutcome(<<>>, <<>>, "none", s.err, s)}
        ELSE UNION {
            IF list.err # NoErr
            THEN {MapOutcome(<<>>, <<>>, "none", list.err, s)}
            ELSE LinkLoop(list.items, a, s, <<>>, <<>>)
            : list \in ListAnswers}
        : s \in SyncRepo(a)}

\* no run of repoMapperFunc yet
NoSync ==
    [kind |-> "none",
     a |-> [type |-> "", kind |-> "", Namespace |-> "", Name |-> "",
            Artifact |-> "nil"],
     requests |-> <<>>, links |-> <<>>, exit |-> "none", err |-> NoErr,
     http |-> "none", untar |-> "none"]

----------------------------------------------------------------------------
RECURSIVE SumLen(_, _)
SumLen(layers, names) ==
    IF names = {} THEN 0
    ELSE LET n == CHOOSE x \in names : TRUE
         IN  Len(layers[n].Status.Conditions) + SumLen(layers, names \ {n})

\* the number of conditions stored in the cluster
History(layers) == SumLen(layers, DOMAIN layers)

\* r.Get: not found for a name absent from the cluster, else nil or an error
Get(n) ==
    IF n \notin DOMAIN cluster THEN {"notfound"} ELSE ErrAnswers("Get")

\* an IgnoreNotFound that hands every error back
IgnoreNotFound_Identity(err) == err

\* client.IgnoreNotFound: nil for a not-found error, else the error
IgnoreNotFound(err) == IF err = "notfound" THEN NoErr ELSE err

\* the effect of Reconcile for the request name n when the read answers getErr
ReconcileGot(n, getErr) ==
    IF getErr # NoErr
    THEN /\ last' = NoPass(IF getErr = "notfound" THEN "notfound" ELSE "geterr",
                           n, IgnoreNotFound(getErr))
         /\ UNCHANGED cluster
    ELSE
    LET addonsLayer == cluster[n]
    IN  \E p \in processAddonLayer(CreateLayer(addonsLayer), cluster) :
            LET l == IF p.err # NoErr
                     THEN StatusUpdate(p.l, FailedCondition,
                                       "AddonsLayerFailedReason", p.err)
                     ELSE p.l
            IN  \E u \in updateRequeue(l) :
                    /\ cluster' = IF u.wrote /\ u.rerr = NoErr
                                  THEN [cluster EXCEPT
                                            ![n].Status = l.addonsLayer.Status]
                                  ELSE cluster
                    /\ last' = Pass(n, addonsLayer, l, p, u)

Reconcile(n) ==
    /\ alive
    /\ \E getErr \in Get(n) : ReconcileGot(n, getErr)
    /\ History(cluster') <= MaxHistory
    /\ UNCHANGED <<sync, alive, tree>>

\* an operator sets or clears the hold flag of a descriptor
EditHold(n) ==
    /\ cluster' = [cluster EXCEPT ![n].Spec.Hold = ~@]
    /\ UNCHANGED <<last, sync, alive, tree>>

Init ==
    /\ cluster = [n \in Layers |-> NewAddonsLayer(n, FALSE)]
    /\ last = NoPass("none", "none", NoErr)
    /\ sync = NoSync
    /\ alive = TRUE
    /\ tree = [p \in SourcePaths |-> "absent"]

Next ==
    \/ \E n \in Requests : Reconcile(n)
    \/ \E n \in Layers : EditHold(n)

Spec == Init /\ [][Next]_vars

----------------------------------------------------------------------------
(* The Layer's transition operations applied to a stored object, as a      *)
(* caller of the Layer interface would apply them.                         *)

TransitionOps ==
    {"SetStatusK8sVersion", "SetStatusDeployed", "SetStatusApplyPending",
     "SetStatusApplying", "SetStatusPrunePending", "SetStatusPruned",
     "SetStatusPruning", "SetStatusPruningToPruned", "SetHold", "StatusUpdate"}

ApplyOp(op, l) ==
    CASE op = "SetStatusK8sVersion"      -> SetStatusK8sVersion(l)
      [] op = "SetStatusDeployed"        -> SetStatusDeployed(l)
      [] op = "SetStatusApplyPending"    -> SetStatusApplyPending(l)
      [] op = "SetStatusApplying"        -> SetStatusApplying(l)
      [] op = "SetStatusPrunePending"    -> SetStatusPrunePending(l)
      [] op = "SetStatusPruned"          -> SetStatusPruned(l)
      [] op = "SetStatusPruning"         -> SetStatusPruning(l)
      [] op = "SetStatusPruningToPruned" -> SetStatusPruningToPruned(l)
      [] op = "SetHold"                  -> SetHold(l)
      [] op = "StatusUpdate"             ->
             StatusUpdate(l, FailedCondition, "AddonsLayerFailedReason", "failed")

Transition(n) ==
    /\ \E op \in TransitionOps :
           LET before == cluster[n]
               l      == ApplyOp(op, CreateLayer(before))
           IN  /\ cluster' = [cluster EXCEPT ![n].Status = l.addonsLayer.Status]
               /\ last' = [kind |-> "op", name |-> n, op |-> op,
                           before |-> before, l |-> l]
    /\ History(cluster') <= MaxHistory
    /\ UNCHANGED <<sync, alive, tree>>

NextOps ==
    \/ Reconcile("Y")
    \/ EditHold("Y")
    \/ Transition("Y")

\* one layer: passes interleaved with direct uses of the Layer's transition
\* operations
SpecOps == Init /\ [][NextOps]_vars

----------------------------------------------------------------------------
(* A reconcile session driven through the Layer interface: the Layer is    *)
(* created from the stored object, its session flags are set by the        *)
(* interface's setters, and updateRequeue ends the session.                *)

SessionOps ==
    {"SetRequeue", "SetDelayed", "SetUpdated", "SetDelayedRequeue",
     "SetStatusDeployed"}

ApplySessionOp(op, l) ==
    CASE op = "SetRequeue"        -> SetRequeue(l)
      [] op = "SetDelayed"        -> SetDelayed(l)
      [] op = "SetUpdated"        -> SetUpdated(l)
      [] op = "SetDelayedRequeue" -> SetDelayedRequeue(l)
      [] op = "SetStatusDeployed" -> SetStatusDeployed(l)

\* layers.CreateLayer on the object read
OpenSession(n) ==
    /\ last' = [kind |-> "session", name |-> n, before |-> cluster[n],
                l |-> CreateLayer(cluster[n]), done |-> FALSE,
                res |-> Result(FALSE, 0), rerr |-> NoErr, wrote |-> FALSE,
                updateErr |-> NoErr]
    /\ UNCHANGED <<cluster, sync, alive, tree>>

\* one call of a setter on the session's Layer
SessionCall ==
    /\ last.kind = "session" /\ ~last.done
    /\ \E op \in SessionOps : last' = [last EXCEPT !.l = ApplySessionOp(op, @)]
    /\ UNCHANGED <<cluster, sync, alive, tree>>

\* r.updateRequeue on the session's Layer
CloseSession ==
    /\ last.kind = "session" /\ ~last.done
    /\ \E u \in updateRequeue(last.l) :
           /\ last' = [last EXCEPT !.done = TRUE, !.res = u.res,
                                   !.rerr = u.rerr, !.wrote = u.wrote,
                                   !.updateErr = u.updateErr]
           /\ cluster' = IF u.wrote /\ u.rerr = NoErr
                         THEN [cluster EXCEPT
                                   ![last.name].Status = last.l.addonsLayer.Status]
                         ELSE cluster
    /\ History(cluster') <= MaxHistory
    /\ UNCHANGED <<sync, alive, tree>>

NextSession ==
    \/ \E n \in Layers : OpenSession(n)
    \/ SessionCall
    \/ CloseSession

SpecSession == Init /\ [][NextSession]_vars

----------------------------------------------------------------------------
(* A cluster whose Executor reports on every pass that pruning is required *)
(* and prunes without error, and whose reads and writes succeed.           *)

ReconcilePruning(n) ==
    /\ alive
    /\ UNCHANGED <<sync, alive, tree>>
    /\ ReconcileGot(n, NoErr)
    /\ History(cluster') <= MaxLong
    /\ last'.rerr = NoErr
    /\ \/ last'.calls = <<Call("PruneIsRequired", TRUE, NoErr),
                          Call("Prune", TRUE, NoErr)>>
       \/ last'.before.Spec.Hold

NextLong ==
    \/ ReconcilePruning("Y")
    \/ EditHold("Y")

SpecLong == Init /\ [][NextLong]_vars

----------------------------------------------------------------------------
(* Artifact Sync: the watch on GitRepository objects hands a notification  *)
(* to repoMapperFunc.                                                      *)

RepoMapper(a) ==
    /\ alive
    /\ \E o \in repoMapperFunc(a) :
           /\ sync' = [kind |-> "mapped", a |-> a, requests |-> o.requests,
                       links |-> o.links, exit |-> o.exit, err |-> o.err,
                       http |-> o.http, untar |-> o.untar]
           /\ alive' = (o.exit = "none")
    /\ UNCHANGED <<cluster, last, tree>>

\* content appears at a layer's path of the source tree, put there by
\* whatever fills the tree
Provision(n) ==
    /\ tree' = [tree EXCEPT ![GetSourcePath(cluster[n])] = "rev0"]
    /\ UNCHANGED <<cluster, last, sync, alive>>

NextSync ==
    \/ \E a \in Notifications : RepoMapper(a)
    \/ \E n \in Layers : EditHold(n)
    \/ \E n \in Layers : Provision(n)

SpecSync == Init /\ [][NextSync]_vars

----------------------------------------------------------------------------
(* Observations of the most recent pass *)

IsPass == last.kind = "pass"

\* the status of the Layer at the end of the pass and of the object it read
End == last.l.addonsLayer.Status
Begin == last.before.Status

Newest(status) == status.Conditions[Len(status.Conditions)]

Called(op) == \E i \in DOMAIN last.calls : last.calls[i].op = op

Answered(op, val) ==
    \E i \in DOMAIN last.calls : last.calls[i] = Call(op, val, NoErr)

Failing(op) ==
    \E i \in DOMAIN last.calls : last.calls[i].op = op /\ last.calls[i].err # NoErr

Mutating == {"Prune", "Apply"}
Queries == {"PruneIsRequired", "ApplyIsRequired", "ApplyWasSuccessful"}

\* requeue at once / after the descriptor's configured interval
Immediate(res) == res = Result(TRUE, 0)
DelayedBy(res, n) == SpecInterval(n) > 0 /\ res = Result(TRUE, SpecInterval(n))

NotDeployed(n) ==
    n \notin DOMAIN cluster \/ cluster[n].Status.State # DeployedCondition

\* the layers whose source is the repository of the notification a
Matching(a) ==
    {n \in DOMAIN cluster : /\ cluster[n].Spec.Source.Name = a.Name
                            /\ cluster[n].Spec.Source.NameSpace = a.Namespace}

IsMapped == sync.kind = "mapped"

\* the elements of a sequence
Range(seq) == {seq[i] : i \in DOMAIN seq}

----------------------------------------------------------------------------
(* Claims *)

\* C1: a pass invokes Executor.Apply for a layer only when every layer it
\* depends on exists and reports Deployed; with ApplyIsRequired true and a
\* dependency not Deployed the pass issues no Apply.
C1_DependencyOrdering ==
    IsPass /\ Called("Apply") =>
        \A d \in DependsOn(last.name) : ~NotDeployed(d)

\* C1 witness: a pass on Y found an apply required while X was not Deployed
C1_Witness ==
    /\ IsPass /\ last.name = "Y"
    /\ Answered("ApplyIsRequired", TRUE)
    /\ NotDeployed("X")
    /\ ~Called("Apply")

\* C2: a pass issues at most one of the mutating Executor calls Prune and
\* Apply, whatever the Executor answers.
C2_OneMutationPerPass ==
    IsPass =>
        Cardinality({i \in DOMAIN last.calls : last.calls[i].op \in Mutating}) <= 1

\* C2 witness: a pass that pruned
C2_Witness == IsPass /\ Called("Prune") /\ ~Called("Apply")

\* C3: a pass on a layer whose descriptor has hold set ends in Hold whatever
\* the state before, calls no Executor operation, and appends no condition
\* when the layer was in Hold already; a successful status write leaves Hold
\* in the cluster.
C3_HoldStopsPass ==
    IsPass /\ last.before.Spec.Hold =>
        /\ End.State = HoldCondition
        /\ last.calls = <<>>
        /\ Begin.State = HoldCondition => End = Begin /\ ~last.wrote
        /\ Begin.State # HoldCondition =>
              /\ Len(End.Conditions) = Len(Begin.Conditions) + 1
              /\ Newest(End).Type = HoldCondition
        /\ last.rerr = NoErr => cluster[last.name].Status.State = HoldCondition

\* C3 witness: a pass on a held layer that was in Hold before, and one that
\* came from Deployed
C3_Witness ==
    /\ IsPass /\ last.before.Spec.Hold
    /\ Begin.State = HoldCondition
    /\ Len(Begin.Conditions) = 2
    /\ Begin.Conditions[1].Type = DeployedCondition

\* C4: a pass in which Executor.Prune or Executor.Apply returns an error ends
\* in Failed with the error's message in the newest condition and returns an
\* immediate requeue.
C4_MutationErrorFails ==
    IsPass =>
        \A i \in DOMAIN last.calls :
            last.calls[i].op \in Mutating /\ last.calls[i].err # NoErr =>
                /\ End.State = FailedCondition
                /\ Newest(End).Message = last.calls[i].err
                /\ Immediate(last.res)

\* C5: a pass in which PruneIsRequired, ApplyIsRequired or ApplyWasSuccessful
\* returns an error makes no further Executor call, ends in Failed with the
\* error's message as the newest condition and returns an immediate requeue.
C5_QueryErrorAborts ==
    IsPass =>
        \A i \in DOMAIN last.calls :
            last.calls[i].op \in Queries /\ last.calls[i].err # NoErr =>
                /\ i = Len(last.calls)
                /\ End.State = FailedCondition
                /\ Len(End.Conditions) = Len(Begin.Conditions) + 1
                /\ Newest(End).Type = FailedCondition
                /\ Newest(End).Message = last.calls[i].err
                /\ Immediate(last.res)

\* C5 witness: the readiness query failed after the two other queries answered
C5_Witness ==
    /\ IsPass /\ Failing("ApplyWasSuccessful")
    /\ Answered("PruneIsRequired", FALSE) /\ Answered("ApplyIsRequired", FALSE)

\* C6: a pass in which Prune (Apply) succeeds ends in Pruning (Applying),
\* returns a requeue after the descriptor's interval, never an immediate one,
\* and makes no Executor call after the successful Prune (Apply).
C6_SuccessDelays ==
    IsPass =>
        \A i \in DOMAIN last.calls :
            last.calls[i].op \in Mutating /\ last.calls[i].err = NoErr =>
                /\ i = Len(last.calls)
                /\ End.State = IF last.calls[i].op = "Prune"
                               THEN PruningCondition ELSE ApplyingCondition
                /\ DelayedBy(last.res, last.name)
                /\ ~Immediate(last.res)

\* C6 witness: a pass whose Prune succeeded
C6_Witness ==
    IsPass /\ \E i \in DOMAIN last.calls : last.calls[i] = Call("Prune", TRUE, NoErr)

\* C7: Scenario A.  For layer X (no dependencies, hold unset, version
\* satisfied, nothing to prune) a pass with ApplyIsRequired true invokes Apply
\* and, Apply succeeding, ends in Applying with a requeue after the interval;
\* a pass with ApplyIsRequired false and ApplyWasSuccessful true ends in
\* Deployed.
C7_ScenarioA ==
    IsPass /\ last.name = "X" /\ DependsOn("X") = {}
           /\ Answered("PruneIsRequired", FALSE) =>
        /\ Answered("ApplyIsRequired", TRUE) =>
              /\ Called("Apply")
              /\ Answered("Apply", TRUE) =>
                    /\ End.State = ApplyingCondition
                    /\ DelayedBy(last.res, "X")
        /\ Answered("ApplyIsRequired", FALSE)
              /\ Answered("ApplyWasSuccessful", TRUE) =>
              End.State = DeployedCondition

\* C8: Scenario B.  A pass that finds an apply required while a layer it
\* depends on is not Deployed leaves the state and the conditions unchanged,
\* writes no status, issues no Prune or Apply and returns a requeue after the
\* configured interval.
C8_ScenarioB ==
    IsPass /\ Answered("ApplyIsRequired", TRUE)
           /\ (\E d \in DependsOn(last.name) : NotDeployed(d)) =>
        /\ End = Begin
        /\ ~last.wrote
        /\ cluster[last.name].Status = Begin
        /\ ~Called("Prune") /\ ~Called("Apply")
        /\ DelayedBy(last.res, last.name)

\* C8 witness: Y needs an apply, X exists and is in a state other than Deployed
C8_Witness ==
    /\ IsPass /\ last.name = "Y" /\ Answered("ApplyIsRequired", TRUE)
    /\ cluster["X"].Status.State \in States \ {DeployedCondition}
    /\ last.res = Result(TRUE, IntervalY)

\* C9: whenever a layer's condition list is non-empty, its status.state is
\* the type of the most recently appended condition; this holds of the stored
\* objects and of the Layer at the end of every pass or transition operation.
C9_StateIsNewestCondition ==
    /\ \A n \in Layers :
           cluster[n].Status.Conditions # <<>> =>
               cluster[n].Status.State = Newest(cluster[n].Status).Type
    /\ last.kind \in {"pass", "op"} /\ End.Conditions # <<>> =>
           End.State = Newest(End).Type

\* C9 witness: a transition operation appended to a non-empty condition list
C9_Witness ==
    /\ last.kind = "op" /\ last.op = "SetStatusApplyPending"
    /\ Len(End.Conditions) = 2
    /\ End.Conditions[1].Type # End.Conditions[2].Type

\* C10: no layer's status retains more than MaxConditions conditions.
C10_ConditionsBounded ==
    /\ \A n \in Layers : Len(cluster[n].Status.Conditions) <= MaxConditions
    /\ IsPass => Len(End.Conditions) <= MaxConditions

\* C11 (as stated): in every reachable state the status.state of every layer,
\* stored or held by the pass that just ended, is one of the nine values of
\* the enumeration.
C11_StateInEnumeration ==
    /\ \A n \in DOMAIN cluster : cluster[n].Status.State \in States
    /\ IsPass => End.State \in States

\* C11 (amended): the status.state of every layer, stored or held by the pass
\* that just ended, is one of the nine values as soon as the layer has a
\* condition; a layer without conditions has the empty state.
C11_StateInEnumerationOnceRecorded ==
    LET Recorded(status) ==
            IF status.Conditions = <<>>
            THEN status.State = ""
            ELSE status.State \in States
    IN  /\ \A n \in DOMAIN cluster : Recorded(cluster[n].Status)
        /\ IsPass => Recorded(End)

\* C11 witness: a pass on a layer without conditions whose version query
\* failed: the empty state was re-recorded, then WaitingForClusterVersion
C11_Witness ==
    /\ IsPass /\ Begin.Conditions = <<>>
    /\ last.version # <<>> /\ last.version[1].err # NoErr
    /\ Len(End.Conditions) = 2
    /\ End.Conditions[1].Type = ""
    /\ End.State = K8sVersionCondition
    /\ cluster[last.name].Status = End

\* C12: SetStatusDeployed called twice in a row on a layer appends one
\* condition in total, none when the layer was Deployed before the first
\* call, and the second call changes neither the state nor the conditions.
C12_DeployedIdempotent ==
    [][(/\ last.kind = "op" /\ last.op = "SetStatusDeployed"
        /\ last'.kind = "op" /\ last'.op = "SetStatusDeployed"
        /\ last'.name = last.name
        /\ last'.before = last.l.addonsLayer)
       => /\ last'.l.addonsLayer.Status = last'.before.Status
          /\ cluster'[last'.name].Status = cluster[last'.name].Status
          /\ Len(last'.l.addonsLayer.Status.Conditions)
                 = Len(last.before.Status.Conditions)
                   + (IF last.before.Status.State = DeployedCondition
                      THEN 0 ELSE 1)]_vars

\* C12 witness: SetStatusDeployed applied to a layer that a SetStatusDeployed
\* had brought from Pruning to Deployed
C12_Witness ==
    /\ last.kind = "op" /\ last.op = "SetStatusDeployed"
    /\ ~last.l.updated
    /\ Len(Begin.Conditions) = 2
    /\ Begin.Conditions[1].Type = PruningCondition
    /\ Newest(Begin).Type = DeployedCondition
    /\ End = Begin

\* C13: a Reconcile for a name the cluster does not hold returns the empty
\* result and no error, makes no Executor call and no status write, and
\* leaves every stored layer as it was.
C13_NotFoundIsNoOp ==
    [][(last'.name # last.name /\ last'.name \notin DOMAIN cluster)
       => /\ last'.res = Result(FALSE, 0)
          /\ last'.rerr = NoErr
          /\ last'.calls = <<>>
          /\ ~last'.wrote
          /\ cluster' = cluster]_vars

\* C13 witness: the pass for the absent name Z, after a layer was recorded
C13_Witness ==
    /\ last.kind = "notfound" /\ last.name = "Z"
    /\ \E n \in DOMAIN cluster : cluster[n].Status.Conditions # <<>>

C15_VersionGate ==
    (IsPass /\ ~last.before.Spec.Hold /\ last.version[1].err = NoErr) =>
        LET below == StrGreater(last.before.Spec.K8sVersion,
                                last.version[1].version)
            waits == /\ End.State = K8sVersionCondition
                     /\ Newest(End).Reason = "AddonsLayerK8sVersionReason"
                     /\ last.calls = <<>>
                     /\ DelayedBy(last.res, last.name)
        IN  /\ below <=> waits
            /\ ~below => Called("PruneIsRequired")

\* C16: a pass attempts the status write exactly when the Layer's updated
\* flag is set; when the write fails the pass returns the write's error, the
\* stored status stays as read, and the scheduling decision is still the one
\* the flags give.
C16_WriteFailureReturned ==
    IsPass =>
        /\ last.wrote <=> IsUpdated(last.l)
        /\ ~last.wrote => last.rerr = NoErr
        /\ last.wrote /\ last.updateErr # NoErr =>
               /\ last.rerr = last.updateErr
               /\ cluster[last.name].Status = Begin
               /\ last.res.Requeue = NeedsRequeue(last.l)
               /\ last.res.RequeueAfter =
                      (IF IsDelayed(last.l) THEN GetDelay(last.l) ELSE 0)

\* C16 witness: a pass whose Prune succeeded and whose status write failed
C16_Witness ==
    /\ IsPass /\ Answered("Prune", TRUE)
    /\ last.wrote /\ last.updateErr = ErrOf("update")
    /\ last.rerr = ErrOf("update")
    /\ End.State = PruningCondition /\ Begin.State # PruningCondition

\* C17: a run of the mapper whose download answers a status other than 200,
\* a transport error or the expiry of the 15 s deadline returns no reconcile
\* request, makes no link into the source tree, changes no stored layer and
\* leaves the process running.
C17_FetchFailureDrops ==
    [][(sync' # sync /\ sync'.http \in {"500", "transport", "timeout"})
       => /\ sync'.requests = <<>>
          /\ sync'.links = <<>>
          /\ sync'.exit = "none"
          /\ alive'
          /\ cluster' = cluster]_vars

\* C17 witness: the notification for the repository of layer X, answered by
\* a status other than 200
C17_Witness ==
    /\ IsMapped /\ sync.http = "500"
    /\ Matching(sync.a) = {"X"}
    /\ sync.err = "faild to download artifact, status"
    /\ alive

\* C18: a run of the mapper in which the link of one layer fails leaves the
\* process running, still links every other listed layer, and returns the
\* requests of the matching layers whose link succeeded.
C18_PublishFailureContained ==
    (IsMapped /\ \E i \in DOMAIN sync.links : sync.links[i].err # NoErr) =>
        /\ alive /\ sync.exit = "none"
        /\ {sync.links[i].layer : i \in DOMAIN sync.links} = DOMAIN cluster
        /\ Range(sync.requests) =
               {n \in Matching(sync.a) :
                    \A i \in DOMAIN sync.links :
                        sync.links[i].layer = n => sync.links[i].err = NoErr}

\* C19: a run of the mapper whose download answers 200 and whose extraction
\* succeeds returns one request for each layer whose source name and
\* namespace are the repository's, and no other request.
C19_BatchIsExact ==
    (IsMapped /\ sync.http = "200" /\ sync.untar = NoErr) =>
        /\ Range(sync.requests) = Matching(sync.a)
        /\ Len(sync.requests) = Cardinality(Matching(sync.a))

\* C20: a run of the mapper on an object of the wrong kind, on an object that
\* is not a repository, or on a repository whose status has no artifact
\* returns no request, attempts no download and no link, and leaves the
\* process running.
C20_UnrecognizedDropped ==
    (IsMapped /\ (\/ sync.a.kind # GitRepositoryKind
                  \/ sync.a.type # "GitRepository"
                  \/ sync.a.Artifact = "nil")) =>
        /\ sync.requests = <<>>
        /\ sync.http = "none"
        /\ sync.links = <<>>
        /\ sync.exit = "none"
        /\ alive

\* C21: every path of the source tree holds complete content, the one
\* published before or the newly published one, and after a run of the mapper
\* that returns without an error the path of every layer whose source is the
\* repository resolves to the content of the repository's new artifact.
C21_PublishedAtomically ==
    /\ \A p \in SourcePaths : tree[p] \in {"absent", "rev0", "rev1"}
    /\ (IsMapped /\ sync.exit = "none" /\ sync.err = NoErr) =>
           \A n \in Matching(sync.a) :
               tree[GetSourcePath(cluster[n])] = sync.a.Artifact

\* the operations of the Executor calls of the pass, in order
CallOps == [i \in DOMAIN last.calls |-> last.calls[i].op]

\* the version query of the pass answered a version not below the prerequisite
VersionNotBelow ==
    /\ last.version # <<>> /\ last.version[1].err = NoErr
    /\ ~StrGreater(last.before.Spec.K8sVersion, last.version[1].version)

\* C22: within a pass the steps run in the order hold check, version gate,
\* PruneIsRequired, ApplyIsRequired, ApplyWasSuccessful, each only if no
\* earlier one stopped the pass, and the pass stops at exactly one of them:
\* with hold set neither the version nor the Executor is queried; the Executor
\* is called only past the version gate; a required prune ends the pass
\* without ApplyIsRequired being called; ApplyWasSuccessful is called only
\* when neither a prune nor an apply is required.
C22_StepOrder ==
    IsPass =>
        /\ last.before.Spec.Hold => last.version = <<>> /\ last.calls = <<>>
        /\ ~last.before.Spec.Hold => Len(last.version) = 1
        /\ last.calls # <<>> => ~last.before.Spec.Hold /\ VersionNotBelow
        /\ CallOps \in {<<>>,
                         <<"PruneIsRequired">>,
                         <<"PruneIsRequired", "Prune">>,
                         <<"PruneIsRequired", "ApplyIsRequired">>,
                         <<"PruneIsRequired", "ApplyIsRequired", "Apply">>,
                         <<"PruneIsRequired", "ApplyIsRequired",
                           "ApplyWasSuccessful">>}
        /\ Answered("PruneIsRequired", TRUE) =>
               CallOps = <<"PruneIsRequired", "Prune">>
        /\ Called("ApplyIsRequired") => Answered("PruneIsRequired", FALSE)
        /\ Called("ApplyWasSuccessful") =>
               /\ Answered("PruneIsRequired", FALSE)
               /\ Answered("ApplyIsRequired", FALSE)
        /\ \A i \in DOMAIN last.calls :
               i < Len(last.calls) /\ last.calls[i].op \in Queries =>
                   \/ last.calls[i] = Call(last.calls[i].op, FALSE, NoErr)
                   \/ /\ last.calls[i] = Call(last.calls[i].op, TRUE, NoErr)
                      /\ i + 1 = Len(last.calls)
                      /\ last.calls[i + 1].op \in Mutating

\* C22 witness: a pass that went through every step to ApplyWasSuccessful
C22_Witness ==
    /\ IsPass /\ ~last.before.Spec.Hold /\ VersionNotBelow
    /\ CallOps = <<"PruneIsRequired", "ApplyIsRequired", "ApplyWasSuccessful">>
    /\ End.State = DeployedCondition

\* every Executor call of the pass is one an Executor gives that answers
\* PruneIsRequired false, ApplyIsRequired false and ApplyWasSuccessful ready
NothingToDo(ready) ==
    \A i \in DOMAIN last.calls :
        last.calls[i] \in {Call("PruneIsRequired", FALSE, NoErr),
                           Call("ApplyIsRequired", FALSE, NoErr),
                           Call("ApplyWasSuccessful", ready, NoErr)}

\* C23: whatever the state before, a pass with hold unset and the cluster
\* version not below the prerequisite, on an Executor that answers
\* PruneIsRequired false and ApplyIsRequired false, ends in Deployed when
\* ApplyWasSuccessful answers true, and leaves the status as it was and
\* returns a requeue after the interval when it answers false.
C23_LevelTriggered ==
    (IsPass /\ ~last.before.Spec.Hold /\ VersionNotBelow) =>
        /\ NothingToDo(TRUE) => End.State = DeployedCondition
        /\ NothingToDo(FALSE) =>
               End = Begin /\ DelayedBy(last.res, last.name)

\* C24: a run of the mapper for a repository calls os.Link only for layers
\* whose source is that repository, so that a layer of another repository is
\* not linked and its path cannot end the run.
C24_OnlyReferencingLayersLinked ==
    IsMapped =>
        \A i \in DOMAIN sync.links : sync.links[i].layer \in Matching(sync.a)

\* C25: a pass appends at most one condition to the layer's status, whatever
\* the descriptor's flags, the answer or error of the version query and the
\* answers or errors of the Executor.
C25_OneConditionPerPass ==
    IsPass => Len(End.Conditions) <= Len(Begin.Conditions) + 1

\* the pass found the layer at its target: in Hold with hold set, or Deployed
\* with the version not below the prerequisite and an Executor that has
\* nothing to prune, nothing to apply and reports the last apply ready
AtRest ==
    \/ last.before.Spec.Hold /\ Begin.State = HoldCondition
    \/ /\ ~last.before.Spec.Hold /\ Begin.State = DeployedCondition
       /\ VersionNotBelow /\ NothingToDo(TRUE)

\* C26: a pass that finds the layer at its target appends no condition,
\* writes no status and returns no requeue, and the stored status is the one
\* it read.
C26_Quiescence ==
    (IsPass /\ AtRest) =>
        /\ End = Begin
        /\ ~last.wrote
        /\ last.res = Result(FALSE, 0)
        /\ cluster[last.name].Status = Begin

\* C27: a pass that returns no requeue either ran with hold set and ended in
\* Hold, or found a Deployed layer with nothing to prune, nothing to apply and
\* the last apply ready; every other pass returns an immediate requeue or one
\* after the descriptor's interval.
C27_NonRestingRequeues ==
    IsPass =>
        /\ ~last.res.Requeue =>
               \/ last.before.Spec.Hold /\ End.State = HoldCondition
               \/ /\ Begin.State = DeployedCondition
                  /\ End.State = DeployedCondition
                  /\ Len(last.calls) = 3 /\ NothingToDo(TRUE)
        /\ last.res.Requeue =>
               Immediate(last.res) \/ DelayedBy(last.res, last.name)

\* C27 witness: a pass on a Deployed layer whose last apply is not ready
\* returned a requeue after the interval without changing the status
C27_Witness ==
    /\ IsPass /\ Begin.State = DeployedCondition
    /\ Answered("ApplyWasSuccessful", FALSE)
    /\ End = Begin
    /\ DelayedBy(last.res, last.name)

====
